---- MODULE Spec2Model ----
(***************************************************************************)
(* Model of functions.py: the survey aggregation (load_impression_data_-   *)
(* from_tsv, load_image_variances_from_tsv, extract_weights), the colour   *)
(* sampler (get_average_rgb) and the report writer (write_csv_output).     *)
(*                                                                         *)
(* Strings are sequences of one-character strings, so that basename,       *)
(* splitext, int() and the "image_%02d" key format are computed and not    *)
(* assumed.  Real numbers are exact: a number is (p + q*sqrt(d)) / den,    *)
(* which is closed under everything the code does with a mean, a           *)
(* population standard deviation and a rational alpha.  Floating-point     *)
(* rounding of Python floats is not modelled.                              *)
(***************************************************************************)
EXTENDS Integers, Sequences, FiniteSets, TLC

VARIABLES
    fn,              \* the function the caller invoked ("none" when idle)
    pc,              \* position inside the running function
    exc,             \* the exception in flight / raised ("none" when none)
    ret,             \* <<>> until the function returns, then <<value>>
    tsv_file,        \* lines of the survey file, each a sequence of cells
    alpha,           \* penalty coefficient of load_image_variances_from_tsv
    lineNo,          \* number of lines the csv reader has consumed
    sums,            \* load_impression_data_from_tsv: sums[0..9]
    count,           \* load_impression_data_from_tsv: count
    all_scores,      \* load_image_variances_from_tsv: all_scores[0..9]
    image_paths,     \* write_csv_output / get_average_rgb: the paths
    impression_data, \* write_csv_output: the mapping looked up
    disk,            \* what each image path holds on disk
    outFile,         \* the destination file of write_csv_output
    csvOpen,         \* TRUE while the destination file handle is open
    idx,             \* loop index (image loop, extract_weights loop)
    openImages,      \* image file handles currently open
    avg_rgb,         \* <<>> or <<[r, g, b]>>: result of get_average_rgb
    variances_data,  \* extract_weights: the input mapping
    weights          \* extract_weights: the list being built

vars == <<fn, pc, exc, ret, tsv_file, alpha, lineNo, sums, count, all_scores,
          image_paths, impression_data, disk, outFile, csvOpen, idx,
          openImages, avg_rgb, variances_data, weights>>

----------------------------------------------------------------------------
(* Bounds of the explored inputs.                                          *)

MaxRows == 2      \* data rows of a survey file

MaxPaths == 2     \* length of image_paths

(* Program constants.                                                      *)

NumSlots == 10    \* the ten image columns / keys image_01 .. image_10

----------------------------------------------------------------------------
(* Exact numbers: [p, q, d, den] stands for (p + q * sqrt(d)) / den,       *)
(* den > 0, d >= 0.                                                        *)

Num(p, q, d, den) == [p |-> p, q |-> q, d |-> d, den |-> den]

IntNum(n) == Num(n, 0, 0, 1)

Frac(n, m) == Num(n, 0, 0, m)

Zero == IntNum(0)

IntSign(n) == IF n > 0 THEN 1 ELSE IF n < 0 THEN -1 ELSE 0

\* sign of (p + q * sqrt(d)) / den
NumSign(x) ==
    LET q == IF x.d = 0 THEN 0 ELSE x.q
    IN  IF q = 0 THEN IntSign(x.p)
        ELSE IF x.p = 0 THEN IntSign(q)
        ELSE IF x.p > 0 /\ q > 0 THEN 1
        ELSE IF x.p < 0 /\ q < 0 THEN -1
        ELSE IF x.p > 0 THEN IntSign(x.p * x.p - q * q * x.d)
        ELSE IntSign(q * q * x.d - x.p * x.p)

\* x - y; the radicands agree whenever both numbers have a radical part
NumSub(x, y) ==
    Num(x.p * y.den - y.p * x.den,
        x.q * y.den - y.q * x.den,
        IF x.q # 0 /\ x.d # 0 THEN x.d ELSE y.d,
        x.den * y.den)

\* r * x for a rational r (r.q = 0)
NumScale(r, x) == Num(r.p * x.p, r.p * x.q, x.d, r.den * x.den)

NumEq(x, y) == NumSign(NumSub(x, y)) = 0

NumGt(x, y) == NumSign(NumSub(x, y)) = 1

NumGeq(x, y) == NumSign(NumSub(x, y)) >= 0

NumMax(x, y) == IF NumGeq(x, y) THEN x ELSE y

----------------------------------------------------------------------------
(* Sequences of integers.                                                  *)

RECURSIVE SeqSum(_)
SeqSum(s) == IF s = <<>> THEN 0 ELSE Head(s) + SeqSum(Tail(s))

RECURSIVE SumSqDev(_, _, _)
\* sum over x in s of (n * x - total)^2, i.e. n^2 times the sum of the
\* squared deviations from the mean total / n
SumSqDev(s, n, total) ==
    IF s = <<>> THEN 0
    ELSE (n * Head(s) - total) * (n * Head(s) - total)
         + SumSqDev(Tail(s), n, total)

----------------------------------------------------------------------------
(* Strings: sequences of one-character strings.                            *)

Digits == <<"0", "1", "2", "3", "4", "5", "6", "7", "8", "9">>

IsDigit(c) == \E k \in 1..10 : Digits[k] = c

DigitVal(c) == (CHOOSE k \in 1..10 : Digits[k] = c) - 1

RECURSIVE Decimal(_)
\* str(n) for n >= 0
Decimal(n) ==
    IF n < 10 THEN <<Digits[n + 1]>>
    ELSE Decimal(n \div 10) \o <<Digits[(n % 10) + 1]>>

\* f"{n:02d}" for n >= 0: zero-padded to width two, never truncated
Format02d(n) ==
    LET s == Decimal(n) IN IF Len(s) < 2 THEN <<"0">> \o s ELSE s

ImagePrefix == <<"i", "m", "a", "g", "e", "_">>

\* f"image_{i:02d}"
Key(i) == ImagePrefix \o Format02d(i)

RECURSIVE StripLeft(_)
StripLeft(s) ==
    IF s # <<>> /\ Head(s) = " " THEN StripLeft(Tail(s)) ELSE s

RECURSIVE StripRight(_)
StripRight(s) ==
    IF s # <<>> /\ s[Len(s)] = " "
    THEN StripRight(SubSeq(s, 1, Len(s) - 1)) ELSE s

RECURSIVE DigitsVal(_)
DigitsVal(s) ==
    IF s = <<>> THEN 0
    ELSE 10 * DigitsVal(SubSeq(s, 1, Len(s) - 1)) + DigitVal(s[Len(s)])

\* int(cell): surrounding blanks stripped, an optional sign, then one or
\* more decimal digits; anything else is a ValueError (ok = FALSE).
ParseInt(cell) ==
    LET t    == StripRight(StripLeft(cell))
        sgn  == t # <<>> /\ Head(t) \in {"-", "+"}
        body == IF sgn THEN Tail(t) ELSE t
        good == body # <<>> /\ \A k \in 1..Len(body) : IsDigit(body[k])
    IN  [ok  |-> good,
         val |-> IF ~good THEN 0
                 ELSE IF sgn /\ Head(t) = "-" THEN 0 - DigitsVal(body)
                 ELSE DigitsVal(body)]

\* s.rfind(c) + 1: the last position of c in s, 0 when absent
LastIndexOf(s, c) ==
    IF \E k \in 1..Len(s) : s[k] = c
    THEN CHOOSE k \in 1..Len(s) :
             s[k] = c /\ \A j \in (k + 1)..Len(s) : s[j] # c
    ELSE 0

\* os.path.basename(p)
basename(p) == SubSeq(p, LastIndexOf(p, "/") + 1, Len(p))

\* os.path.splitext(p)[0]: the extension starts at the last dot after the
\* last separator, unless only dots precede it in the file name
splitext_root(p) ==
    LET sep == LastIndexOf(p, "/")
        dot == LastIndexOf(p, ".")
    IN  IF dot > sep /\ \E k \in (sep + 1)..(dot - 1) : p[k] # "."
        THEN SubSeq(p, 1, dot - 1)
        ELSE p

----------------------------------------------------------------------------
(* statistics.mean / statistics.pstdev and the weight formula.             *)

\* statistics.mean(scores), and sums[i] / count: the exact quotient
Mean(total, n) == Frac(total, n)

SampleDivisor(n) == IF n > 1 THEN n - 1 ELSE 1

\* pstdev divides the sum of squared deviations by the number of scores
StdevDivisor(n) == n

\* statistics.pstdev(scores) = sqrt( sum((x - mean)^2) / divisor )
\*   = sqrt( SumSqDev / (n^2 * divisor) ) = sqrt(SumSqDev * divisor) / (n * divisor)
PStdev(scores) ==
    LET n   == Len(scores)
        dv  == StdevDivisor(n)
        ssd == SumSqDev(scores, n, SeqSum(scores))
    IN  Num(0, 1, ssd * dv, n * dv)

\* raw_weight = mean_val - alpha * std_val
RawWeight(mean_val, std_val, a) == NumSub(mean_val, NumScale(a, std_val))

UnflooredWeight(raw_weight) == raw_weight

\* weight = raw_weight if raw_weight > 0 else 0
FlooredWeight(raw_weight) ==
    IF NumGt(raw_weight, Zero) THEN raw_weight ELSE Zero

----------------------------------------------------------------------------
(* Survey files explored.  A file is a sequence of lines as csv.reader     *)
(* yields them: each line a sequence of cells, each cell a string.         *)

SeqsUpTo(S, n) == UNION {[1..k -> S] : k \in 0..n}

Slots == 0..(NumSlots - 1)

Timestamp == <<"t">>

HeaderRow == <<Timestamp>> \o [i \in 1..NumSlots |-> Decimal(i)]

\* a complete row: cell a in the odd slots, cell b in the even slots
ScoreRow(a, b) ==
    <<Timestamp>> \o [i \in 1..NumSlots |-> IF i % 2 = 1 THEN a ELSE b]

\* row with the cell of slot i (1-based, row[i] in the source) replaced
WithCell(row, i, cell) == [row EXCEPT ![i + 1] = cell]

BaseRow == ScoreRow(<<"5">>, <<"3">>)

WellFormedRows ==
    {ScoreRow(a, b) : a \in {<<"5">>, <<"7">>, <<"-", "1">>},
                      b \in {<<"3">>, <<"5">>}}
    \cup {BaseRow \o <<<<"9">>>>,                  \* a surplus eleventh score
          WithCell(BaseRow, 2, <<" ", "7", " ">>)} \* blanks around the digits

MalformedRows ==
    {WithCell(BaseRow, 4, <<"x">>),            \* text in slot 4
     WithCell(BaseRow, 1, <<"5", ".", "0">>),  \* a decimal in slot 1
     WithCell(BaseRow, 10, <<>>),              \* an empty cell in slot 10
     SubSeq(BaseRow, 1, 5),                    \* cells of slots 5..10 missing
     <<>>}                                     \* a blank line

SurveyFiles ==
    {<<>>} \cup
    {<<HeaderRow>> \o t : t \in SeqsUpTo(WellFormedRows \cup MalformedRows, MaxRows)}

Alphas == {IntNum(0), Frac(1, 2), IntNum(2)}

----------------------------------------------------------------------------
(* Reading one data row: for i in range(1, 11): int(row[i]).               *)

\* row[i] raises IndexError when the row has no cell i (0-based)
CellMissing(row, i) == Len(row) < i + 1

CellBad(row, i) == CellMissing(row, i) \/ ~ParseInt(row[i + 1]).ok

RECURSIVE FirstBadFrom(_, _)
\* the loop of line 48 from slot i on: the first slot at which int(row[i])
\* raises, 0 when none does
FirstBadFrom(row, i) ==
    IF i > NumSlots THEN 0
    ELSE IF CellBad(row, i) THEN i
    ELSE FirstBadFrom(row, i + 1)

FirstBadSlot(row) == FirstBadFrom(row, 1)

\* the exception int(row[i]) raises at slot bad (0: none)
RowError(row, bad) ==
    IF bad = 0 THEN "none"
    ELSE IF CellMissing(row, bad) THEN "IndexError"
    ELSE "ValueError"

\* whether the cell of slot j (0-based) was consumed before the row failed
\* at slot bad, or ended
Consumed(j, bad) == bad = 0 \/ j + 1 < bad

----------------------------------------------------------------------------
(* Results of the two aggregations.                                        *)

SlotOfKey(k) == CHOOSE i \in Slots : Key(i + 1) = k

NonZeroEmptyAverage == IntNum(1)

\* avg_value = 0 when count is 0
EmptyAverage == Zero

\* impression_data after the loop of lines 54-60
ImpressionResult(s, c) ==
    [k \in {Key(i + 1) : i \in Slots} |->
        IF c > 0 THEN Mean(s[SlotOfKey(k)], c) ELSE EmptyAverage]

\* mean_val, std_val, raw_weight and weight of one slot, lines 138-156
ImageStats(scores, a) ==
    LET mean_val == IF Len(scores) = 0 THEN Zero
                    ELSE Mean(SeqSum(scores), Len(scores))
        std_val  == IF Len(scores) = 0 THEN Zero ELSE PStdev(scores)
    IN  [mean   |-> mean_val,
         std    |-> std_val,
         weight |-> FlooredWeight(RawWeight(mean_val, std_val, a))]

\* results after the loop of lines 137-156
VariancesResult(sc, a) ==
    [k \in {Key(i + 1) : i \in Slots} |-> ImageStats(sc[SlotOfKey(k)], a)]

----------------------------------------------------------------------------
(* Images on disk and the colour sampler.                                  *)

\* a file PIL cannot open (missing, or not an image)
Unreadable == [kind |-> "unreadable", w |-> 0, h |-> 0, px |-> <<>>]

\* a file whose header opens but whose pixel data does not decode
Truncated == [kind |-> "truncated", w |-> 1, h |-> 1, px |-> <<>>]

\* a decodable raster, pixels in row-major order, each <<r, g, b>>
Raster(w, h, px) == [kind |-> "raster", w |-> w, h |-> h, px |-> px]

RECURSIVE PixelSum(_, _, _)
\* the channel sum accumulated by lines 18-23 over the first k pixels
PixelSum(img, c, k) ==
    IF k = 0 THEN 0
    ELSE LET y == (k - 1) \div img.w
             x == (k - 1) % img.w
         IN  img.px[y * img.w + x + 1][c] + PixelSum(img, c, k - 1)

\* num_pixels = width * height
NumPixels(img) == img.w * img.h

\* the tuple returned by line 25 (num_pixels > 0)
AverageRgb(img) ==
    [r |-> Frac(PixelSum(img, 1, NumPixels(img)), NumPixels(img)),
     g |-> Frac(PixelSum(img, 2, NumPixels(img)), NumPixels(img)),
     b |-> Frac(PixelSum(img, 3, NumPixels(img)), NumPixels(img))]

\* f"{x:.2f}" of a non-negative rational: rounded to hundredths, ties to even
Format2f(x) ==
    LET n  == 100 * x.p
        lo == n \div x.den
        rm == n % x.den
        hu == IF 2 * rm > x.den THEN lo + 1
              ELSE IF 2 * rm = x.den THEN lo + (lo % 2)
              ELSE lo
    IN  Decimal(hu \div 100) \o <<".">> \o Format02d(hu % 100)

----------------------------------------------------------------------------
(* The report file: lines of cells; a cell is text or a number that the    *)
(* csv writer renders with str().                                          *)

TextCell(s) == [text |-> s, num |-> <<>>]

NumCell(x) == [text |-> <<>>, num |-> <<x>>]

NotAvailable == TextCell(<<"N", "/", "A">>)

\* ["filename", "Red_ave", "Green_ave", "Blue_ave", "Impression"]
HeaderLine ==
    <<TextCell(<<"f", "i", "l", "e", "n", "a", "m", "e">>),
      TextCell(<<"R", "e", "d", "_", "a", "v", "e">>),
      TextCell(<<"G", "r", "e", "e", "n", "_", "a", "v", "e">>),
      TextCell(<<"B", "l", "u", "e", "_", "a", "v", "e">>),
      TextCell(<<"I", "m", "p", "r", "e", "s", "s", "i", "o", "n">>)>>

LookupOrZero(d, image_id) ==
    IF image_id \in DOMAIN d THEN NumCell(d[image_id]) ELSE NumCell(Zero)

\* impression_data.get(image_id, "N/A")
Lookup(d, image_id) ==
    IF image_id \in DOMAIN d THEN NumCell(d[image_id]) ELSE NotAvailable

WholePath(image_path) == image_path

\* filename = os.path.basename(image_path)
RowFilename(image_path) == basename(image_path)

\* the row of lines 99-105
ReportRow(image_path, avg, d) ==
    <<TextCell(RowFilename(image_path)),
      TextCell(Format2f(avg.r)),
      TextCell(Format2f(avg.g)),
      TextCell(Format2f(avg.b)),
      Lookup(d, splitext_root(RowFilename(image_path)))>>

AbsentFile == [exists |-> FALSE, lines |-> <<>>]

\* a destination left by an earlier, complete run over one other image
OldReport ==
    [exists |-> TRUE,
     lines  |-> <<HeaderLine,
                  <<TextCell(<<"o", "l", "d", ".", "j", "p", "g">>),
                    TextCell(<<"0", ".", "0", "0">>),
                    TextCell(<<"0", ".", "0", "0">>),
                    TextCell(<<"0", ".", "0", "0">>),
                    NotAvailable>>>>]

\* with Image.open(...) as img: the handle is closed when the block is left,
\* whether or not an exception e is in flight
LeakOnError(handles, h, e) == IF e = "none" THEN handles \ {h} ELSE handles

ReleaseHandle(handles, h, e) == handles \ {h}

----------------------------------------------------------------------------
(* Report inputs explored.                                                 *)

Path01 == <<"i", "m", "g", "s", "/">> \o Key(1) \o <<".", "j", "p", "g">>

Path05 == <<"i", "m", "g", "s", "/">> \o Key(5) \o <<".", "j", "p", "g">>

Path10 == Key(10) \o <<".", "j", "p", "g">>

\* no extension, and a dot in the directory name
Path02 == <<"v", "1", ".", "0", "/">> \o Key(2)

PathPool == {Path01, Path05, Path10, Path02}

Pixel1 == Raster(1, 1, <<<<10, 20, 30>>>>)

Pixel2 == Raster(2, 1, <<<<0, 0, 0>>, <<255, 1, 2>>>>)

Pixel4 == Raster(2, 2, <<<<1, 2, 3>>, <<2, 2, 3>>, <<4, 2, 3>>, <<0, 2, 4>>>>)

Disks ==
    {(Path01 :> Pixel1) @@ (Path05 :> Pixel2) @@ (Path10 :> Pixel4)
        @@ (Path02 :> Pixel1),
     (Path01 :> Pixel2) @@ (Path05 :> Raster(0, 0, <<>>)) @@ (Path10 :> Truncated)
        @@ (Path02 :> Unreadable),
     (Path01 :> Raster(0, 2, <<>>)) @@ (Path05 :> Pixel4) @@ (Path10 :> Unreadable)
        @@ (Path02 :> Truncated)}

ImpressionMaps ==
    {[k \in K |-> Frac(SlotOfKey(k) + 7, 2)] : K \in SUBSET {Key(1), Key(10)}}

----------------------------------------------------------------------------
(* extract_weights.                                                        *)

NoneEntry == [none |-> TRUE, w |-> Zero]

SkipMissing(vd, i) ==
    IF Key(i) \in DOMAIN vd
    THEN <<[none |-> FALSE, w |-> vd[Key(i)].weight]>>
    ELSE <<>>

\* what one pass of the loop of lines 176-183 appends for slot i
ExtractEntry(vd, i) ==
    IF Key(i) \in DOMAIN vd
    THEN <<[none |-> FALSE, w |-> vd[Key(i)].weight]>>
    ELSE <<NoneEntry>>

\* keys of the explored mappings: three canonical ones and two that are not
\* ("image_1", "image_11")
ExtractKeyPool ==
    <<Key(1), Key(2), Key(10), ImagePrefix \o <<"1">>, Key(11)>>

VariancesInputs ==
    {[k \in {ExtractKeyPool[j] : j \in J} |->
        LET j == CHOOSE j \in J : ExtractKeyPool[j] = k
        IN  [mean |-> IntNum(j), std |-> Zero, weight |-> Frac(v * j, 2)]]
     : J \in SUBSET (1..Len(ExtractKeyPool)), v \in 1..2}

----------------------------------------------------------------------------
(* The state machine: a caller invokes one function at a time.             *)

aggVars == <<tsv_file, alpha, lineNo, sums, count, all_scores>>

repVars == <<image_paths, impression_data, disk, outFile, csvOpen,
             openImages, avg_rgb>>

extVars == <<variances_data, weights>>

Init ==
    /\ fn = "none"
    /\ pc = "idle"
    /\ exc = "none"
    /\ ret = <<>>
    /\ tsv_file = <<>>
    /\ alpha = Zero
    /\ lineNo = 0
    /\ sums = [i \in Slots |-> 0]
    /\ count = 0
    /\ all_scores = [i \in Slots |-> <<>>]
    /\ image_paths = <<>>
    /\ impression_data = << >>
    /\ disk = << >>
    /\ outFile = AbsentFile
    /\ csvOpen = FALSE
    /\ idx = 0
    /\ openImages = {}
    /\ avg_rgb = <<>>
    /\ variances_data = << >>
    /\ weights = <<>>

(* ---- load_impression_data_from_tsv / load_image_variances_from_tsv ---- *)

\* load_impression_data_from_tsv(tsv_file): lines 36-37
CallImpression ==
    /\ pc = "idle"
    /\ \E f \in SurveyFiles : tsv_file' = f
    /\ fn' = "imp"
    /\ pc' = "header"
    /\ UNCHANGED <<exc, ret, alpha, lineNo, sums, count, all_scores, idx>>
    /\ UNCHANGED <<repVars, extVars>>

\* load_image_variances_from_tsv(tsv_file, alpha): line 123
CallVariances ==
    /\ pc = "idle"
    /\ \E f \in SurveyFiles : tsv_file' = f
    /\ \E a \in Alphas : alpha' = a
    /\ fn' = "var"
    /\ pc' = "header"
    /\ UNCHANGED <<exc, ret, lineNo, sums, count, all_scores, idx>>
    /\ UNCHANGED <<repVars, extVars>>

\* header = next(reader): StopIteration on a file with no line at all
ReadHeader ==
    /\ pc = "header"
    /\ IF Len(tsv_file) = 0
       THEN /\ exc' = "StopIteration"
            /\ pc' = "raised"
            /\ UNCHANGED lineNo
       ELSE /\ lineNo' = 1
            /\ pc' = "rows"
            /\ UNCHANGED exc
    /\ UNCHANGED <<fn, ret, tsv_file, alpha, sums, count, all_scores, idx>>
    /\ UNCHANGED <<repVars, extVars>>

\* one pass of the loop of lines 44-50
ImpressionReadRow ==
    /\ fn = "imp" /\ pc = "rows" /\ lineNo < Len(tsv_file)
    /\ LET row == tsv_file[lineNo + 1]
           bad == FirstBadSlot(row)
       IN  /\ sums' = [j \in Slots |->
                          IF Consumed(j, bad)
                          THEN sums[j] + ParseInt(row[j + 2]).val
                          ELSE sums[j]]
           /\ IF bad = 0
              THEN /\ count' = count + 1
                   /\ UNCHANGED <<exc, pc>>
              ELSE /\ exc' = RowError(row, bad)
                   /\ pc' = "raised"
                   /\ UNCHANGED count
    /\ lineNo' = lineNo + 1
    /\ UNCHANGED <<fn, ret, tsv_file, alpha, all_scores, idx>>
    /\ UNCHANGED <<repVars, extVars>>

\* lines 53-62
ImpressionReturn ==
    /\ fn = "imp" /\ pc = "rows" /\ lineNo = Len(tsv_file)
    /\ ret' = <<ImpressionResult(sums, count)>>
    /\ pc' = "done"
    /\ UNCHANGED <<fn, exc, idx>>
    /\ UNCHANGED <<aggVars, repVars, extVars>>

\* one pass of the loop of lines 130-134
VariancesReadRow ==
    /\ fn = "var" /\ pc = "rows" /\ lineNo < Len(tsv_file)
    /\ LET row == tsv_file[lineNo + 1]
           bad == FirstBadSlot(row)
       IN  /\ all_scores' = [j \in Slots |->
                                IF Consumed(j, bad)
                                THEN Append(all_scores[j], ParseInt(row[j + 2]).val)
                                ELSE all_scores[j]]
           /\ IF bad = 0
              THEN UNCHANGED <<exc, pc>>
              ELSE /\ exc' = RowError(row, bad)
                   /\ pc' = "raised"
    /\ lineNo' = lineNo + 1
    /\ UNCHANGED <<fn, ret, tsv_file, alpha, sums, count, idx>>
    /\ UNCHANGED <<repVars, extVars>>

\* lines 136-158
VariancesReturn ==
    /\ fn = "var" /\ pc = "rows" /\ lineNo = Len(tsv_file)
    /\ ret' = <<VariancesResult(all_scores, alpha)>>
    /\ pc' = "done"
    /\ UNCHANGED <<fn, exc, idx>>
    /\ UNCHANGED <<aggVars, repVars, extVars>>

(* ---- get_average_rgb ---- *)

\* get_average_rgb(image_path) called directly
CallAverage ==
    /\ pc = "idle"
    /\ \E d \in Disks : disk' = d
    /\ \E p \in PathPool : image_paths' = <<p>>
    /\ fn' = "avg"
    /\ idx' = 1
    /\ pc' = "img_open"
    /\ UNCHANGED <<exc, ret, impression_data, outFile, csvOpen, openImages,
                   avg_rgb>>
    /\ UNCHANGED <<aggVars, extVars>>

\* where control goes when get_average_rgb raises / returns
AfterRaise == IF fn = "csv" THEN "csv_exit" ELSE "raised"

AfterReturn == IF fn = "csv" THEN "csv_row" ELSE "done"

\* Image.open(image_path): line 13; a failed open leaves no handle behind
ImgOpen ==
    /\ pc = "img_open"
    /\ IF disk[image_paths[idx]].kind = "unreadable"
       THEN /\ exc' = "UnidentifiedImageError"
            /\ pc' = AfterRaise
            /\ UNCHANGED openImages
       ELSE /\ openImages' = openImages \cup {idx}
            /\ pc' = "img_load"
            /\ UNCHANGED exc
    /\ UNCHANGED <<fn, ret, idx, image_paths, impression_data, disk, outFile,
                   csvOpen, avg_rgb>>
    /\ UNCHANGED <<aggVars, extVars>>

\* lines 14-25: convert, the pixel loops and the three divisions
ImgLoad ==
    /\ pc = "img_load"
    /\ LET img == disk[image_paths[idx]]
       IN  IF img.kind = "truncated"
           THEN exc' = "OSError" /\ UNCHANGED avg_rgb
           ELSE IF NumPixels(img) = 0
           THEN exc' = "ZeroDivisionError" /\ UNCHANGED avg_rgb
           ELSE avg_rgb' = <<AverageRgb(img)>> /\ UNCHANGED exc
    /\ pc' = "img_exit"
    /\ UNCHANGED <<fn, ret, idx, image_paths, impression_data, disk, outFile,
                   csvOpen, openImages>>
    /\ UNCHANGED <<aggVars, extVars>>

\* leaving the with block of line 13, by return or by exception
ImgExit ==
    /\ pc = "img_exit"
    /\ openImages' = ReleaseHandle(openImages, idx, exc)
    /\ IF exc = "none"
       THEN /\ pc' = AfterReturn
            /\ ret' = IF fn = "avg" THEN avg_rgb ELSE ret
       ELSE /\ pc' = AfterRaise
            /\ UNCHANGED ret
    /\ UNCHANGED <<fn, exc, idx, image_paths, impression_data, disk, outFile,
                   csvOpen, avg_rgb>>
    /\ UNCHANGED <<aggVars, extVars>>

(* ---- write_csv_output ---- *)

\* write_csv_output(image_paths, impression_data, output_path, filename);
\* the destination is absent or holds an earlier report
CallWriteCsv ==
    /\ pc = "idle"
    /\ \E d \in Disks : disk' = d
    /\ \E ps \in SeqsUpTo(PathPool, MaxPaths) : image_paths' = ps
    /\ \E m \in ImpressionMaps : impression_data' = m
    /\ \E o \in {AbsentFile, OldReport} : outFile' = o
    /\ fn' = "csv"
    /\ pc' = "csv_open"
    /\ UNCHANGED <<exc, ret, idx, csvOpen, openImages, avg_rgb>>
    /\ UNCHANGED <<aggVars, extVars>>

\* open(output_path / filename, "w"): line 81, creates or truncates
CsvOpen ==
    /\ pc = "csv_open"
    /\ outFile' = [exists |-> TRUE, lines |-> <<>>]
    /\ csvOpen' = TRUE
    /\ pc' = "csv_header"
    /\ UNCHANGED <<fn, exc, ret, idx, image_paths, impression_data, disk,
                   openImages, avg_rgb>>
    /\ UNCHANGED <<aggVars, extVars>>

\* writer.writerow(header): lines 84-85
CsvHeader ==
    /\ pc = "csv_header"
    /\ outFile' = [outFile EXCEPT !.lines = Append(@, HeaderLine)]
    /\ idx' = 1
    /\ pc' = "csv_loop"
    /\ UNCHANGED <<fn, exc, ret, image_paths, impression_data, disk, csvOpen,
                   openImages, avg_rgb>>
    /\ UNCHANGED <<aggVars, extVars>>

\* for image_path in image_paths: line 88, up to the call of line 93
CsvLoop ==
    /\ pc = "csv_loop"
    /\ pc' = IF idx <= Len(image_paths) THEN "img_open" ELSE "csv_exit"
    /\ UNCHANGED <<fn, exc, ret, idx>>
    /\ UNCHANGED <<aggVars, repVars, extVars>>

\* lines 96-105: the lookup and the row of this image
CsvRow ==
    /\ pc = "csv_row"
    /\ outFile' = [outFile EXCEPT !.lines =
                      Append(@, ReportRow(image_paths[idx], avg_rgb[1],
                                          impression_data))]
    /\ idx' = idx + 1
    /\ pc' = "csv_loop"
    /\ UNCHANGED <<fn, exc, ret, image_paths, impression_data, disk, csvOpen,
                   openImages, avg_rgb>>
    /\ UNCHANGED <<aggVars, extVars>>

\* leaving the with block of line 81: the file is flushed and closed with
\* whatever was written, and an exception in flight propagates
CsvExit ==
    /\ pc = "csv_exit"
    /\ csvOpen' = FALSE
    /\ pc' = IF exc = "none" THEN "done" ELSE "raised"
    /\ UNCHANGED <<fn, exc, ret, idx, image_paths, impression_data, disk,
                   outFile, openImages, avg_rgb>>
    /\ UNCHANGED <<aggVars, extVars>>

(* ---- extract_weights ---- *)

\* extract_weights(variances_data): line 175
CallExtract ==
    /\ pc = "idle"
    /\ \E vd \in VariancesInputs : variances_data' = vd
    /\ fn' = "ext"
    /\ idx' = 1
    /\ pc' = "ext_loop"
    /\ UNCHANGED <<exc, ret, weights>>
    /\ UNCHANGED <<aggVars, repVars>>

\* one pass of the loop of lines 176-183
ExtractStep ==
    /\ pc = "ext_loop" /\ idx <= NumSlots
    /\ weights' = weights \o ExtractEntry(variances_data, idx)
    /\ idx' = idx + 1
    /\ UNCHANGED <<fn, pc, exc, ret, variances_data>>
    /\ UNCHANGED <<aggVars, repVars>>

\* return weights: line 185
ExtractReturn ==
    /\ pc = "ext_loop" /\ idx > NumSlots
    /\ ret' = <<weights>>
    /\ pc' = "done"
    /\ UNCHANGED <<fn, exc, idx>>
    /\ UNCHANGED <<aggVars, repVars, extVars>>

Next ==
    \/ CallImpression \/ CallVariances \/ ReadHeader
    \/ ImpressionReadRow \/ ImpressionReturn
    \/ VariancesReadRow \/ VariancesReturn
    \/ CallAverage \/ ImgOpen \/ ImgLoad \/ ImgExit
    \/ CallWriteCsv \/ CsvOpen \/ CsvHeader \/ CsvLoop \/ CsvRow \/ CsvExit
    \/ CallExtract \/ ExtractStep \/ ExtractReturn

Spec == Init /\ [][Next]_vars

----------------------------------------------------------------------------
(* Properties.                                                             *)

\* the file names and identifiers of the explored paths, written out
ExpectedFilename ==
    (Path01 :> <<"i", "m", "a", "g", "e", "_", "0", "1", ".", "j", "p", "g">>)
    @@ (Path05 :> <<"i", "m", "a", "g", "e", "_", "0", "5", ".", "j", "p", "g">>)
    @@ (Path10 :> <<"i", "m", "a", "g", "e", "_", "1", "0", ".", "j", "p", "g">>)
    @@ (Path02 :> <<"i", "m", "a", "g", "e", "_", "0", "2">>)

ExpectedId ==
    (Path01 :> <<"i", "m", "a", "g", "e", "_", "0", "1">>)
    @@ (Path05 :> <<"i", "m", "a", "g", "e", "_", "0", "5">>)
    @@ (Path10 :> <<"i", "m", "a", "g", "e", "_", "1", "0">>)
    @@ (Path02 :> <<"i", "m", "a", "g", "e", "_", "0", "2">>)

\* the canonical identifiers image_01 .. image_10, written out
CanonicalId ==
    [i \in 1..10 |->
        <<"i", "m", "a", "g", "e", "_">> \o
        (IF i = 10 THEN <<"1", "0">> ELSE <<"0", Digits[i + 1]>>)]

\* a report holding the header and one row for each of image_paths
CompleteReport ==
    /\ outFile.exists
    /\ Len(outFile.lines) = Len(image_paths) + 1
    /\ outFile.lines[1] = HeaderLine

\* C1: after a failing run of write_csv_output the destination is absent,
\* unchanged, or holds a complete report (never the header plus only some of
\* the rows).
C1_NoPartialOutput ==
    (fn = "csv" /\ pc = "raised") =>
        (outFile \in {AbsentFile, OldReport} \/ CompleteReport)

\* C2: when write_csv_output completes, the output is the header row, once
\* and first, followed by exactly one row per image path, the i-th row
\* carrying the basename of the i-th path.
C2_HeaderThenRowsInOrder ==
    (fn = "csv" /\ pc = "done") =>
        /\ outFile.exists
        /\ Len(outFile.lines) = Len(image_paths) + 1
        /\ outFile.lines[1] = HeaderLine
        /\ \A i \in 1..Len(image_paths) :
               /\ outFile.lines[i + 1] # HeaderLine
               /\ outFile.lines[i + 1][1] = TextCell(ExpectedFilename[image_paths[i]])

C2_Witness ==
    /\ fn = "csv" /\ pc = "done"
    /\ image_paths = <<Path10, Path01>>

\* C3: every row written by write_csv_output carries N/A in the Impression
\* column exactly when the image identifier is not a key of the mapping, and
\* the mapped value otherwise; a run only fails on an image that cannot be
\* averaged, never on a missing key.
C3_MissingKeyGivesNA ==
    (fn = "csv" /\ pc \in {"done", "raised"}) =>
        /\ \A i \in 2..Len(outFile.lines) :
               LET id == ExpectedId[image_paths[i - 1]]
               IN  outFile.lines[i][5] =
                       IF id \in DOMAIN impression_data
                       THEN NumCell(impression_data[id])
                       ELSE TextCell(<<"N", "/", "A">>)
        /\ pc = "raised" =>
               LET img == disk[image_paths[idx]]
               IN  img.kind # "raster" \/ img.w * img.h = 0

C3_Witness ==
    /\ fn = "csv" /\ pc = "done"
    /\ image_paths = <<Path05, Path10>>
    /\ DOMAIN impression_data = {Key(1), Key(10)}
    /\ outFile.lines[2][5] = NotAvailable
    /\ outFile.lines[3][5] # NotAvailable

\* some data row of the survey file has a missing or non-integer cell in a
\* slot 1..10
HasMalformedRow ==
    \E r \in 2..Len(tsv_file) : FirstBadSlot(tsv_file[r]) # 0

\* C4: on a response table with a malformed row the aggregation fails with a
\* MalformedResponseError (identifying row and slot) and returns no mapping.
C4_MalformedResponseError ==
    (fn \in {"imp", "var"} /\ pc \in {"done", "raised"} /\ HasMalformedRow) =>
        (pc = "raised" /\ exc = "MalformedResponseError" /\ ret = <<>>)

C6_EmptyImageError ==
    (fn = "avg" /\ pc \in {"done", "raised"}
        /\ disk[image_paths[1]].kind = "raster") =>
        IF disk[image_paths[1]].w * disk[image_paths[1]].h = 0
        THEN pc = "raised" /\ exc = "EmptyImageError"
        ELSE pc = "done" /\ exc = "none"

\* C7: on a survey file with a header and no data row neither aggregation
\* fails, and every slot gets mean 0, std 0, weight 0 (average 0).
C7_EmptyTableGivesZeros ==
    (fn \in {"imp", "var"} /\ Len(tsv_file) = 1) =>
        /\ pc # "raised"
        /\ (pc = "done" /\ fn = "var") =>
               /\ DOMAIN ret[1] = {CanonicalId[i] : i \in 1..10}
               /\ \A k \in DOMAIN ret[1] :
                      /\ NumSign(ret[1][k].mean) = 0
                      /\ NumSign(ret[1][k].std) = 0
                      /\ NumSign(ret[1][k].weight) = 0
        /\ (pc = "done" /\ fn = "imp") =>
               /\ DOMAIN ret[1] = {CanonicalId[i] : i \in 1..10}
               /\ \A k \in DOMAIN ret[1] : NumSign(ret[1][k]) = 0

C7_Witness ==
    /\ fn = "var" /\ pc = "done"
    /\ Len(tsv_file) = 1
    /\ alpha = IntNum(2)

\* the scores of slot i (1..10) in the data rows of a well-formed file
Column(i) ==
    [r \in 1..(Len(tsv_file) - 1) |-> ParseInt(tsv_file[r + 1][i + 1]).val]

RECURSIVE SumOfSquares(_)
SumOfSquares(s) ==
    IF s = <<>> THEN 0 ELSE Head(s) * Head(s) + SumOfSquares(Tail(s))

\* x is the rational total / n
IsQuotient(x, total, n) ==
    (x.q = 0 \/ x.d = 0) /\ x.p * n = total * x.den

\* x >= 0 and x^2 is the population variance of col:
\* (n * sum of squares - (sum)^2) / n^2
IsPopulationStd(x, col) ==
    LET n == Len(col)
    IN  /\ x.p = 0 /\ x.q >= 0
        /\ x.q * x.q * x.d * n * n
               = (n * SumOfSquares(col) - SeqSum(col) * SeqSum(col)) * x.den * x.den

\* C8: on a well-formed table with at least one row every slot's mean is
\* the sum of its scores divided by the row count and its std is the
\* population standard deviation; rows [5,3] and [7,5] give means 6 and 4,
\* stds 1 and 1 and, with alpha = 2, weights 4 and 2.
C8_MeanAndPopulationStd ==
    /\ (fn = "var" /\ pc = "done" /\ Len(tsv_file) >= 2) =>
           /\ \A i \in 1..10 :
                  /\ IsQuotient(ret[1][CanonicalId[i]].mean,
                                SeqSum(Column(i)), Len(tsv_file) - 1)
                  /\ IsPopulationStd(ret[1][CanonicalId[i]].std, Column(i))
           /\ (Column(1) = <<5, 7>> /\ Column(2) = <<3, 5>> /\ alpha = IntNum(2)) =>
                  /\ NumEq(ret[1][CanonicalId[1]].mean, IntNum(6))
                  /\ NumEq(ret[1][CanonicalId[1]].std, IntNum(1))
                  /\ NumEq(ret[1][CanonicalId[2]].mean, IntNum(4))
                  /\ NumEq(ret[1][CanonicalId[2]].std, IntNum(1))
                  /\ NumEq(ret[1][CanonicalId[1]].weight, IntNum(4))
                  /\ NumEq(ret[1][CanonicalId[2]].weight, IntNum(2))
    /\ (fn = "imp" /\ pc = "done" /\ Len(tsv_file) >= 2) =>
           \A i \in 1..10 :
               IsQuotient(ret[1][CanonicalId[i]],
                          SeqSum(Column(i)), Len(tsv_file) - 1)

C8_Witness ==
    /\ fn = "var" /\ pc = "done"
    /\ Len(tsv_file) = 3
    /\ Column(1) = <<5, 7>> /\ Column(2) = <<3, 5>>
    /\ alpha = IntNum(2)

\* C9: extract_weights returns exactly ten entries, the i-th being the
\* weight stored under image_<i> when that identifier is present and the
\* absence marker otherwise, whatever other keys the mapping has.
C9_WeightsPositionallyAligned ==
    (fn = "ext" /\ pc = "done") =>
        /\ Len(ret[1]) = 10
        /\ \A i \in 1..10 :
               IF CanonicalId[i] \in DOMAIN variances_data
               THEN /\ ~ret[1][i].none
                    /\ ret[1][i].w = variances_data[CanonicalId[i]].weight
               ELSE ret[1][i].none

C9_Witness ==
    /\ fn = "ext" /\ pc = "done"
    /\ CanonicalId[1] \notin DOMAIN variances_data
    /\ CanonicalId[2] \in DOMAIN variances_data
    /\ CanonicalId[10] \in DOMAIN variances_data
    /\ (ImagePrefix \o <<"1">>) \in DOMAIN variances_data
    /\ ret[1][1].none /\ ~ret[1][2].none

\* C10: at most one image file is open at any moment, and none is open
\* outside the with block of get_average_rgb: the handle is released when
\* the block is left, by return or by exception.
C10_OneImageOpenAtATime ==
    /\ Cardinality(openImages) <= 1
    /\ pc \notin {"img_load", "img_exit"} => openImages = {}

C10_Witness ==
    /\ fn = "csv" /\ pc = "raised"
    /\ idx = 2
    /\ exc \in {"OSError", "ZeroDivisionError"}
    /\ Len(outFile.lines) = 2

====
